---------------------------- MODULE Spec2Model ----------------------------
(***************************************************************************)
(* Newton's rings simulation: the traveling microscope (motion model,      *)
(* step-size control, precision mode, measurements) and the session that   *)
(* owns it (ring table, left/right measurements, regression of the radius  *)
(* of curvature).  Source: src/newton_rings_simulation.py.                 *)
(*                                                                         *)
(* Numbers.  The program computes in binary floating point; the model      *)
(* computes in decimal fixed point:                                        *)
(*   lengths (step size, ring radii, distances)   nanometres (1e-6 mm)     *)
(*   position                 a pair <<n, f>>: n nanometres plus f units   *)
(*                            of 1e-11 mm, 0 <= f < FinePerNm              *)
(*   velocity                 nanometres per second                        *)
(*   time                     microseconds                                 *)
(*   wavelength               tenths of a nanometre                        *)
(*   radius of curvature      centimetres (the program stores cm * 10^7)   *)
(* A product is rounded where the unit of its result is coarser than the   *)
(* exact value; a decimal tie of round(x, 3) is resolved either way,       *)
(* because the side a binary double falls on is not decided by the decimal *)
(* value.                                                                  *)
(***************************************************************************)
EXTENDS Integers, Sequences, FiniteSets, TLC

\* ------------------------------------------------------------------ units
NmPerMm == 1000 * 1000
NmPerMicron == 10 * 100
FinePerNm == 100 * 1000
UsPerSecond == 1000 * 1000

\* -------------------------------------------------------------- constants
MAX_RINGS == 15
max_position == 30 * NmPerMm
MinStep == NmPerMm \div 1000
MaxStep == 2 * NmPerMm
HistoryCap == 15
SubPixelCap == 20

\* ----------------------------------------------------------------- bounds
MaxOps == 3
MaxStepOps == 20
MaxRingOps == 3
MaxRegressOps == 7
MaxKeyOps == 4
MaxHistoryOps == 22
MaxScanOps == 2
MaxViewOps == 2
MaxTravelOps == 40
MaxSamples == 4

VARIABLES
    position, step_size, current_reading, measurements, movement_history,
    precision_mode, sub_pixel_positions, last_update_time, velocity,
    movement_smoothness, normal_step_size,
    wavelength, radius_of_curvature, ring_radii,
    left_measurements, right_measurements,
    now, ret, prev, nops, budget

micro == <<position, step_size, current_reading, measurements,
           movement_history, precision_mode, sub_pixel_positions,
           last_update_time, velocity, movement_smoothness, normal_step_size>>
session == <<wavelength, radius_of_curvature, ring_radii,
             left_measurements, right_measurements>>
vars == <<micro, session, now, ret, prev, nops, budget>>

\* ---------------------------------------------------------------- helpers
Abs(x) == IF x < 0 THEN -x ELSE x
Max2(a, b) == IF a >= b THEN a ELSE b
Min2(a, b) == IF a <= b THEN a ELSE b

\* a // b rounded to the nearest integer, ties away from zero (b > 0)
RoundDiv(a, b) ==
    IF a >= 0 THEN (2 * a + b) \div (2 * b) ELSE -((2 * (-a) + b) \div (2 * b))

\* round(x, 3) of a length x >= 0 given in nm: the nearest multiple of 0.001 mm
Round3Set(x) ==
    LET q == x \div NmPerMicron
        r == x % NmPerMicron
    IN  IF 2 * r < NmPerMicron THEN {q * NmPerMicron}
        ELSE IF 2 * r > NmPerMicron THEN {(q + 1) * NmPerMicron}
        ELSE {q * NmPerMicron, (q + 1) * NmPerMicron}

\* the record of one call: its name, its return value (for a command that
\* returns nothing, what the user typed), and the step size, the position
\* and the current reading the call started from
Call(op, value) ==
    [op |-> op, value |-> value, step_before |-> step_size,
     position_before |-> position, reading_before |-> current_reading]
Observe(op, value) ==
    /\ prev' = ret
    /\ ret' = Call(op, value)
    /\ nops' = nops + 1
    /\ budget' = budget
\* a call is explored while the number of calls made is below the budget
Callable == nops < budget

\* ------------------------------------------------------------ ring table
SODIUM_WAVELENGTH == 5893
DEFAULT_RADIUS_OF_CURVATURE == 100
AIR_REFRACTIVE_INDEX == 1

\* floor of the square root of n, 0 <= n < 2^31, by bisection on lo..hi
RECURSIVE IsqrtIn(_, _, _)
IsqrtIn(n, lo, hi) ==
    IF lo >= hi THEN lo
    ELSE LET mid == (lo + hi + 1) \div 2
         IN  IF mid * mid <= n THEN IsqrtIn(n, mid, hi)
             ELSE IsqrtIn(n, lo, mid - 1)
Isqrt(n) == IsqrtIn(n, 0, 46340)

\* math.sqrt(m * wavelength * radius_of_curvature / refractive_index)
\* / 1_000_000, in nm.  With the wavelength w in tenths of a nm and the
\* radius of curvature r in cm, m * wavelength * radius_of_curvature is
\* m * w * r * 10^6 nm^2, so the radius is floor(1000 * sqrt(m * w * r / mu))
\* nm; the last two digits come from the remainder of the first root.
SqrtTimes1000(n) ==
    LET s == Isqrt(n * 100)
        rem == n * 100 - s * s
        d == CHOOSE k \in 0..99 :
                 /\ k * (200 * s + k) <= 10000 * rem
                 /\ \A j \in (k + 1)..99 : j * (200 * s + j) > 10000 * rem
    IN  100 * s + d

\* a table whose entries ignore the ring number
FlatRadius(m, w, r) == SqrtTimes1000(w * r)

RingRadius(m, w, r) ==
    IF m = 0 THEN 0
    ELSE SqrtTimes1000((m * w * r) \div AIR_REFRACTIVE_INDEX)

RingTable(w, r) == [m \in 0..MAX_RINGS |-> RingRadius(m, w, r)]

\* ------------------------------------------------------ step-size control
SmoothnessScale == 10
SmoothnessNormal == 8
\* a precision mode that keeps the normal smoothing
SmoothnessKept == SmoothnessNormal
SmoothnessPrecision == 9

IncreasedStep(s) ==
    IF s < NmPerMm \div 10 THEN (s * 125) \div 100
    ELSE IF s < NmPerMm \div 2 THEN (s * 12) \div 10
    ELSE (s * 115) \div 100

DecreasedStep(s) ==
    IF s <= NmPerMm \div 10 THEN Max2(MinStep, (s * 8) \div 10)
    ELSE IF s <= NmPerMm \div 2 THEN (s * 85) \div 100
    ELSE (s * 9) \div 10

increase_step_size ==
    /\ Callable
    /\ IF step_size < MaxStep
       THEN step_size' \in Round3Set(IncreasedStep(step_size))
       ELSE step_size' = step_size
    /\ UNCHANGED <<position, current_reading, measurements, movement_history,
                   precision_mode, sub_pixel_positions, last_update_time,
                   velocity, movement_smoothness, normal_step_size>>
    /\ UNCHANGED <<session, now>>
    /\ Observe("increase_step_size", step_size')

decrease_step_size ==
    /\ Callable
    /\ IF step_size > MinStep
       THEN step_size' \in Round3Set(DecreasedStep(step_size))
       ELSE step_size' = step_size
    /\ UNCHANGED <<position, current_reading, measurements, movement_history,
                   precision_mode, sub_pixel_positions, last_update_time,
                   velocity, movement_smoothness, normal_step_size>>
    /\ UNCHANGED <<session, now>>
    /\ Observe("decrease_step_size", step_size')

\* the step size precision mode starts with
EnteredStep(s) == Max2(MinStep, s \div 10)

\* a toggle that undoes the division by ten
TenfoldStep(s, n) == s * 10

\* a toggle that never restores the remembered step size
KeptStep(s, n) == s

\* the step size restored on leaving precision mode: the remembered one,
\* or the current one if none was remembered (hasattr)
RestoredStep(s, n) == IF n # <<>> THEN n[1] ELSE s

toggle_precision_mode ==
    /\ Callable
    /\ precision_mode' = ~precision_mode
    /\ IF precision_mode'
       THEN /\ normal_step_size' = <<step_size>>
            /\ step_size' \in Round3Set(EnteredStep(step_size))
            /\ movement_smoothness' = SmoothnessPrecision
       ELSE /\ normal_step_size' = normal_step_size
            /\ step_size' \in
                   Round3Set(RestoredStep(step_size, normal_step_size))
            /\ movement_smoothness' = SmoothnessNormal
    /\ velocity' = 0
    /\ UNCHANGED <<position, current_reading, measurements, movement_history,
                   sub_pixel_positions, last_update_time>>
    /\ UNCHANGED <<session, now>>
    /\ Observe("toggle_precision_mode", precision_mode')

\* ----------------------------------------------------------- motion model
\* positions: <<n, f>> stands for n nm + f * 1e-11 mm, 0 <= f < FinePerNm
Nm(n) == <<n, 0>>
LNorm(n, f) == <<n + (f \div FinePerNm), f % FinePerNm>>
LAdd(a, b) == LNorm(a[1] + b[1], a[2] + b[2])
LNeg(a) == LNorm(-a[1], -a[2])
LSub(a, b) == LAdd(a, LNeg(b))
LLess(a, b) == a[1] < b[1] \/ (a[1] = b[1] /\ a[2] < b[2])
LAbs(a) == IF a[1] < 0 THEN LNeg(a) ELSE a

\* v * dt for a speed v >= 0 in nm/s and dt in microseconds, as a length;
\* the product is formed from the thousands and units of both factors
SpeedTimesTime(v, dt) ==
    LET vh == v \div 1000
        vl == v % 1000
        dh == dt \div 1000
        dl == dt % 1000
        mid == vh * dl + vl * dh
        low == (mid % 1000) * 1000 + vl * dl
    IN  <<vh * dh + (mid \div 1000) + (low \div UsPerSecond),
          (low % UsPerSecond) \div 10>>

\* a carriage that does not move
Stalled(v, dt) == Nm(0)

\* a displacement against the velocity
Recoil(v, dt) ==
    IF v >= 0 THEN LNeg(SpeedTimesTime(v, dt)) ELSE SpeedTimesTime(-v, dt)

\* velocity * dt
Displacement(v, dt) ==
    IF v >= 0 THEN SpeedTimesTime(v, dt) ELSE LNeg(SpeedTimesTime(-v, dt))

FactorScale == 10
DtCap == UsPerSecond \div 10

\* dt = min(0.1, current_time - self.last_update_time)
Dt(current_time, last) == Min2(DtCap, current_time - last)

\* actual_step = self.step_size * factor, a tenth of it in precision mode;
\* the factor f is given in tenths
ActualStep(s, f, pm) ==
    IF pm THEN RoundDiv(s * f, FactorScale * 10)
    ELSE RoundDiv(s * f, FactorScale)

\* self.velocity * self.movement_smoothness
\*     + target_velocity * (1.0 - self.movement_smoothness)
SmoothedVelocity(v, target, smooth) ==
    RoundDiv(v * smooth + target * (SmoothnessScale - smooth),
             SmoothnessScale)

\* a refused move that leaves the velocity alone
Undamped(v) == v

\* self.velocity *= 0.5
Damped(v) == RoundDiv(v * 5, 10)

\* an append that never drops an entry
AppendUncapped(list, x, cap) == Append(list, x)

\* append, then pop(0) when the list is longer than cap
AppendCapped(list, x, cap) ==
    LET a == Append(list, x)
    IN  IF Len(a) > cap THEN Tail(a) ELSE a

AtOrBeyondLeftLimit(p) == ~LLess(Nm(-max_position), p)
AtOrBeyondRightLimit(p) == ~LLess(p, Nm(max_position))

\* move_left(factor) called el microseconds after the last reading of the
\* clock
move_left(factor, el) ==
    /\ Callable
    /\ IF ~AtOrBeyondLeftLimit(position)
       THEN LET current_time == now + el
                dt == Dt(current_time, last_update_time)
                actual_step == ActualStep(step_size, factor, precision_mode)
                target_velocity == -(actual_step * 10)
                v == SmoothedVelocity(velocity, target_velocity,
                                      movement_smoothness)
                candidate == LAdd(position, Displacement(v, dt))
                stopped == LLess(candidate, Nm(-max_position))
                new_position ==
                    IF stopped THEN Nm(-max_position) ELSE candidate
                actual_change == LSub(new_position, position)
            IN  /\ now' = current_time
                /\ last_update_time' = current_time
                /\ velocity' = IF stopped THEN 0 ELSE v
                /\ position' = new_position
                /\ sub_pixel_positions' =
                       AppendCapped(sub_pixel_positions,
                                    <<new_position, current_time>>,
                                    SubPixelCap)
                /\ movement_history' =
                       AppendCapped(movement_history,
                                    <<"left", LAbs(actual_change),
                                      current_time>>,
                                    HistoryCap)
                /\ Observe("move_left", TRUE)
       ELSE /\ velocity' = Damped(velocity)
            /\ UNCHANGED <<now, last_update_time, position,
                           sub_pixel_positions, movement_history>>
            /\ Observe("move_left", FALSE)
    /\ UNCHANGED <<step_size, current_reading, measurements, precision_mode,
                   movement_smoothness, normal_step_size>>
    /\ UNCHANGED session

\* move_right(factor) called el microseconds after the last reading of the
\* clock
move_right(factor, el) ==
    /\ Callable
    /\ IF ~AtOrBeyondRightLimit(position)
       THEN LET current_time == now + el
                dt == Dt(current_time, last_update_time)
                actual_step == ActualStep(step_size, factor, precision_mode)
                target_velocity == actual_step * 10
                v == SmoothedVelocity(velocity, target_velocity,
                                      movement_smoothness)
                candidate == LAdd(position, Displacement(v, dt))
                stopped == LLess(Nm(max_position), candidate)
                new_position ==
                    IF stopped THEN Nm(max_position) ELSE candidate
                actual_change == LSub(new_position, position)
            IN  /\ now' = current_time
                /\ last_update_time' = current_time
                /\ velocity' = IF stopped THEN 0 ELSE v
                /\ position' = new_position
                /\ sub_pixel_positions' =
                       AppendCapped(sub_pixel_positions,
                                    <<new_position, current_time>>,
                                    SubPixelCap)
                /\ movement_history' =
                       AppendCapped(movement_history,
                                    <<"right", LAbs(actual_change),
                                      current_time>>,
                                    HistoryCap)
                /\ Observe("move_right", TRUE)
       ELSE /\ velocity' = Damped(velocity)
            /\ UNCHANGED <<now, last_update_time, position,
                           sub_pixel_positions, movement_history>>
            /\ Observe("move_right", FALSE)
    /\ UNCHANGED <<step_size, current_reading, measurements, precision_mode,
                   movement_smoothness, normal_step_size>>
    /\ UNCHANGED session

\* ------------------------------------------------------ measurement model
NoRing == -1
Infinity == Nm(2147483647)

\* a dict that keeps the entry it already has for k
PutIfAbsent(d, k, v) ==
    [x \in (DOMAIN d) \cup {k} |-> IF x \in DOMAIN d THEN d[x] ELSE v]

\* a dict with one entry set: d[k] = v
Put(d, k, v) == [x \in (DOMAIN d) \cup {k} |-> IF x = k THEN v ELSE d[x]]

\* a scan in which a ring at the same distance replaces the closest one
RECURSIVE ScanRingsLast(_, _, _, _)
ScanRingsLast(p, radii, ring_num, acc) ==
    IF ring_num \notin DOMAIN radii THEN acc
    ELSE LET distance == LAbs(LSub(LAbs(p), Nm(radii[ring_num])))
             next ==
                 IF ~LLess(acc.min_distance, distance)
                 THEN [closest_ring |-> ring_num,
                       min_distance |-> distance,
                       second_closest |-> acc.closest_ring,
                       second_min_distance |-> acc.min_distance]
                 ELSE IF LLess(distance, acc.second_min_distance)
                 THEN [acc EXCEPT !.second_min_distance = distance,
                                  !.second_closest = ring_num]
                 ELSE acc
         IN  ScanRingsLast(p, radii, ring_num + 1, next)

\* the scan for the closest and the second closest ring, from ring_num on
RECURSIVE ScanRings(_, _, _, _)
ScanRings(p, radii, ring_num, acc) ==
    IF ring_num \notin DOMAIN radii THEN acc
    ELSE LET distance == LAbs(LSub(LAbs(p), Nm(radii[ring_num])))
             next ==
                 IF LLess(distance, acc.min_distance)
                 THEN [closest_ring |-> ring_num,
                       min_distance |-> distance,
                       second_closest |-> acc.closest_ring,
                       second_min_distance |-> acc.min_distance]
                 ELSE IF LLess(distance, acc.second_min_distance)
                 THEN [acc EXCEPT !.second_min_distance = distance,
                                  !.second_closest = ring_num]
                 ELSE acc
         IN  ScanRings(p, radii, ring_num + 1, next)

ClosestRings(p, radii) ==
    ScanRings(p, radii, 0,
              [closest_ring |-> NoRing, min_distance |-> Infinity,
               second_closest |-> NoRing, second_min_distance |-> Infinity])

\* min(1.0, min_distance * 100), in units of 1e-4: the distance in nm,
\* at most 10000
AlignmentScale == 10000
AlignmentLoss(d) == Min2(AlignmentScale, d[1])

\* base_noise * noise_scale, in nm
BaseNoise(pm) == IF pm THEN NmPerMm \div 1000 ELSE NmPerMm \div 100
NoiseScalePercent(d) ==
    IF LLess(d, Nm(NmPerMm \div 1000)) THEN 1
    ELSE IF LLess(d, Nm(NmPerMm \div 100)) THEN 10
    ELSE IF LLess(d, Nm(NmPerMm \div 10)) THEN 20
    ELSE 100
NoiseEstimate(pm, d) == (BaseNoise(pm) * NoiseScalePercent(d)) \div 100

\* d / t in nm/s for a length d >= 0 and t > 0 microseconds, by long
\* division: the quotient of the nm, then six decimal digits
RECURSIVE DivDigits(_, _, _, _, _)
DivDigits(r, f, t, k, acc) ==
    IF k > 6 THEN acc
    ELSE LET digit == IF k <= 5 THEN (f \div (10 ^ (5 - k))) % 10 ELSE 0
             x == r * 10 + digit
         IN  DivDigits(x % t, f, t, k + 1, acc * 10 + (x \div t))
LengthPerTime(d, t) ==
    (d[1] \div t) * UsPerSecond + DivDigits(d[1] % t, d[2], t, 1, 0)

\* a measurement that takes the microscope to be at rest
RestVelocity(history) == 0

\* the velocity at the time of the measurement: the difference quotient of
\* the last two sub-pixel positions
MeasuredVelocity(history) ==
    IF Len(history) >= 2
    THEN LET a == history[Len(history) - 1]
             b == history[Len(history)]
             pos_diff == LSub(b[1], a[1])
             time_diff == b[2] - a[2]
         IN  IF time_diff > 0
             THEN IF pos_diff[1] < 0
                  THEN -LengthPerTime(LNeg(pos_diff), time_diff)
                  ELSE LengthPerTime(pos_diff, time_diff)
             ELSE 0
    ELSE 0

\* a label taken from the distance alone
QualityByDistance(d, v) ==
    IF LLess(d, Nm(NmPerMm \div 1000)) THEN "Ultra-High"
    ELSE IF LLess(d, Nm(NmPerMm \div 100)) THEN "Very High"
    ELSE IF LLess(d, Nm(NmPerMm \div 20)) THEN "High"
    ELSE IF LLess(d, Nm(NmPerMm \div 10)) THEN "Good"
    ELSE "Standard"

\* precision_quality of take_measurement: the first tier whose threshold
\* bounds both the distance and the speed
Quality(d, v) ==
    IF LLess(d, Nm(NmPerMm \div 1000)) /\ Abs(v) < NmPerMm \div 1000
    THEN "Ultra-High"
    ELSE IF LLess(d, Nm(NmPerMm \div 100)) /\ Abs(v) < NmPerMm \div 100
    THEN "Very High"
    ELSE IF LLess(d, Nm(NmPerMm \div 20)) /\ Abs(v) < NmPerMm \div 20
    THEN "High"
    ELSE IF LLess(d, Nm(NmPerMm \div 10)) /\ Abs(v) < NmPerMm \div 10
    THEN "Good"
    ELSE "Standard"

\* a key that is the position itself, not rounded
UnroundedKey(p) == p

\* round(self.position, 9): the nearest multiple of 1e-9 mm, which is 100
\* units of 1e-11 mm; a decimal tie goes to the even multiple
position_key(p) ==
    LET q == p[2] \div 100
        r == p[2] % 100
        up == r > 50 \/ (r = 50 /\ q % 2 = 1)
    IN  LNorm(p[1], 100 * (IF up THEN q + 1 ELSE q))

\* the record take_measurement builds from the scan, the noise sample u
\* and the measured velocity v
Reading(scan, u, v) ==
    [position |-> position,
     closest_ring |-> scan.closest_ring,
     second_closest_ring |-> scan.second_closest,
     distance_from_ring |-> scan.min_distance,
     reading |->
         LAdd(position,
              Nm(RoundDiv(u * NoiseEstimate(precision_mode,
                                            scan.min_distance), 100))),
     precision |-> Quality(scan.min_distance, v),
     velocity |-> v,
     noise_estimate |-> NoiseEstimate(precision_mode, scan.min_distance),
     timestamp |-> now \div UsPerSecond,
     alignment_quality |->
         100 * AlignmentScale - AlignmentLoss(scan.min_distance)]

\* take_measurement(ring_radii); u is the sample of
\* random.triangular(-1.0, 1.0, 0.0), in percent
take_measurement(u) ==
    /\ Callable
    /\ \E scan \in {ClosestRings(position, ring_radii)} :
       \E reading \in {Reading(scan, u,
                               MeasuredVelocity(sub_pixel_positions))} :
           /\ current_reading' = <<reading>>
           /\ measurements' = Put(measurements, position_key(position),
                                  reading)
           /\ IF reading.closest_ring > 0
              THEN IF LLess(position, Nm(0))
                   THEN /\ left_measurements' =
                               Put(left_measurements, reading.closest_ring,
                                   position)
                        /\ UNCHANGED right_measurements
                   ELSE /\ right_measurements' =
                               Put(right_measurements, reading.closest_ring,
                                   position)
                        /\ UNCHANGED left_measurements
              ELSE UNCHANGED <<left_measurements, right_measurements>>
           /\ Observe("take_measurement", reading)
    /\ UNCHANGED <<position, step_size, movement_history, precision_mode,
                   sub_pixel_positions, last_update_time, velocity,
                   movement_smoothness, normal_step_size>>
    /\ UNCHANGED <<wavelength, radius_of_curvature, ring_radii, now>>

\* ------------------------------------------------------ session commands
\* a line typed by the user: a number, or text that float()/int() rejects
Number(v) == [numeric |-> TRUE, value |-> v]
Garbage == [numeric |-> FALSE, value |-> 0]

microUnchanged == UNCHANGED micro

\* change_wavelength: the menu choice and, for choice 5, the custom
\* wavelength typed (tenths of a nm); the ring table is recomputed always
PresetWavelength(choice) ==
    IF choice = "1" THEN 5893
    ELSE IF choice = "2" THEN 5461
    ELSE IF choice = "3" THEN 4861
    ELSE 6563

\* a range test that takes any number
AnyNumberAccepted(custom) == custom.numeric

CustomWavelengthAccepted(custom) ==
    custom.numeric /\ 4000 <= custom.value /\ custom.value <= 7000

change_wavelength(choice, custom) ==
    /\ Callable
    /\ wavelength' =
           IF choice \in {"1", "2", "3", "4"} THEN PresetWavelength(choice)
           ELSE IF choice = "5" /\ CustomWavelengthAccepted(custom)
           THEN custom.value
           ELSE wavelength
    /\ ring_radii' = RingTable(wavelength', radius_of_curvature)
    /\ UNCHANGED <<radius_of_curvature, left_measurements,
                   right_measurements, now>>
    /\ microUnchanged
    /\ Observe("change_wavelength", [choice |-> choice, custom |-> custom])

\* change_radius: the radius typed, in cm
RadiusAccepted(new_radius) ==
    new_radius.numeric /\ 50 <= new_radius.value /\ new_radius.value <= 200

\* a change of the radius that leaves the ring table as it was
change_radius_only(new_radius) ==
    /\ Callable
    /\ IF RadiusAccepted(new_radius)
       THEN radius_of_curvature' = new_radius.value
       ELSE UNCHANGED radius_of_curvature
    /\ UNCHANGED <<wavelength, ring_radii, left_measurements,
                   right_measurements, now>>
    /\ microUnchanged
    /\ Observe("change_radius", new_radius)

change_radius(new_radius) ==
    /\ Callable
    /\ IF RadiusAccepted(new_radius)
       THEN /\ radius_of_curvature' = new_radius.value
            /\ ring_radii' = RingTable(wavelength, new_radius.value)
       ELSE UNCHANGED <<radius_of_curvature, ring_radii>>
    /\ UNCHANGED <<wavelength, left_measurements, right_measurements, now>>
    /\ microUnchanged
    /\ Observe("change_radius", new_radius)

\* a range of ring numbers that starts at the central spot
RingNumberFromZero(ring_number) ==
    ring_number.numeric /\ 0 <= ring_number.value
                        /\ ring_number.value <= MAX_RINGS

RingNumberAccepted(ring_number) ==
    ring_number.numeric /\ 1 <= ring_number.value
                        /\ ring_number.value <= MAX_RINGS

\* measure_left_side: the ring number typed and the noise
\* (random.random() - 0.5) * 0.02 in nm
measure_left_side(ring_number, noise) ==
    /\ Callable
    /\ IF RingNumberAccepted(ring_number)
       THEN left_measurements' =
                Put(left_measurements, ring_number.value,
                    Nm(-ring_radii[ring_number.value] + noise))
       ELSE UNCHANGED left_measurements
    /\ UNCHANGED <<wavelength, radius_of_curvature, ring_radii,
                   right_measurements, now>>
    /\ microUnchanged
    /\ Observe("measure_left_side", RingNumberAccepted(ring_number))

measure_right_side(ring_number, noise) ==
    /\ Callable
    /\ IF RingNumberAccepted(ring_number)
       THEN right_measurements' =
                Put(right_measurements, ring_number.value,
                    Nm(ring_radii[ring_number.value] + noise))
       ELSE UNCHANGED right_measurements
    /\ UNCHANGED <<wavelength, radius_of_curvature, ring_radii,
                   left_measurements, now>>
    /\ microUnchanged
    /\ Observe("measure_right_side", RingNumberAccepted(ring_number))

\* confirm.lower() == 'y'
ResetConfirmed(confirm) == confirm \in {"y", "Y"}

\* a reset that also stops the microscope
reset_and_stop(confirm) ==
    /\ Callable
    /\ IF ResetConfirmed(confirm)
       THEN /\ left_measurements' = <<>>
            /\ right_measurements' = <<>>
            /\ measurements' = <<>>
            /\ current_reading' = <<>>
            /\ velocity' = 0
       ELSE UNCHANGED <<left_measurements, right_measurements, measurements,
                        current_reading, velocity>>
    /\ UNCHANGED <<position, step_size, movement_history, precision_mode,
                   sub_pixel_positions, last_update_time,
                   movement_smoothness, normal_step_size>>
    /\ UNCHANGED <<wavelength, radius_of_curvature, ring_radii, now>>
    /\ Observe("reset_all_measurements", confirm)

\* reset_all_measurements: the answer typed to "Are you sure"
reset_all_measurements(confirm) ==
    /\ Callable
    /\ IF ResetConfirmed(confirm)
       THEN /\ left_measurements' = <<>>
            /\ right_measurements' = <<>>
            /\ measurements' = <<>>
            /\ current_reading' = <<>>
       ELSE UNCHANGED <<left_measurements, right_measurements, measurements,
                        current_reading>>
    /\ UNCHANGED <<position, step_size, movement_history, precision_mode,
                   sub_pixel_positions, last_update_time, velocity,
                   movement_smoothness, normal_step_size>>
    /\ UNCHANGED <<wavelength, radius_of_curvature, ring_radii, now>>
    /\ Observe("reset_all_measurements", confirm)

\* ------------------------------------------------------------- regression
RECURSIVE SumOver(_, _)
SumOver(f, S) ==
    IF S = {} THEN 0
    ELSE LET x == CHOOSE y \in S : TRUE
         IN  f[x] + SumOver(f, S \ {x})

\* (d nm)^2 in units of 1e-4 mm^2, from the ten-thousands and the rest of d
SquaredDiameter(d) ==
    LET a == d \div 10000
        b == d % 10000
    IN  a * a + (2 * a * b + (b * b) \div 10000) \div 10000

\* abs(right - left), in nm
Diameter(left, right) == LAbs(LSub(right, left))[1]

\* the rings measured on both sides
ValidRings(left, right) == {ring \in DOMAIN left : ring \in DOMAIN right}

\* a calculation that goes ahead with a single ring
AnyRing(n) == n >= 1

\* len(valid_rings) < 2 ends the calculation
EnoughRings(n) == n >= 2

\* a * 10000 / b rounded, a >= 0, b > 0, from the quotient and remainder
TimesTenThousandOver(a, b) ==
    (a \div b) * 10000 + RoundDiv((a % b) * 10000, b)

\* slope / (self.wavelength * 10**-7), in cm, for the slope in units of
\* 1e-4 mm^2 per ring and the wavelength w in tenths of a nm
RadiusFromSlope(slope, w) ==
    IF slope >= 0 THEN TimesTenThousandOver(slope, w)
    ELSE -TimesTenThousandOver(-slope, w)

\* what calculate_radius_from_measurements prints
Regression(left, right, w, r) ==
    LET valid_rings == ValidRings(left, right)
        diameters_squared ==
            [ring \in valid_rings |->
                 SquaredDiameter(Diameter(left[ring], right[ring]))]
        n == Cardinality(valid_rings)
        sum_x == SumOver([x \in valid_rings |-> x], valid_rings)
        sum_y == SumOver(diameters_squared, valid_rings)
        sum_xy == SumOver([x \in valid_rings |-> x * diameters_squared[x]],
                          valid_rings)
        sum_x_squared == SumOver([x \in valid_rings |-> x * x], valid_rings)
        denominator == n * sum_x_squared - sum_x * sum_x
        slope == RoundDiv(n * sum_xy - sum_x * sum_y, denominator)
    IN  IF ~EnoughRings(n)
        THEN [status |-> "need_two_rings", n |-> n, denominator |-> 0,
              calculated_radius |-> 0, actual_radius |-> r]
        ELSE IF denominator = 0
        THEN [status |-> "ZeroDivisionError", n |-> n, denominator |-> 0,
              calculated_radius |-> 0, actual_radius |-> r]
        ELSE [status |-> "ok", n |-> n, denominator |-> denominator,
              calculated_radius |-> RadiusFromSlope(slope, w),
              actual_radius |-> r]

calculate_radius_from_measurements ==
    /\ Callable
    /\ UNCHANGED <<session, now>>
    /\ microUnchanged
    /\ Observe("calculate_radius_from_measurements",
               Regression(left_measurements, right_measurements,
                          wavelength, radius_of_curvature))

\* ------------------------------------------- wavelength from a ring radius
\* (r nm)^2 in units of 1e-5 mm^2 * 1e-6, i.e. r^2 / 10^5, from the thousands
\* and the rest of r
SquareOver100000(r) ==
    LET a == r \div 1000
        b == r % 1000
    IN  10 * a * a + (20 * a * b + (b * b) \div 100) \div 1000

\* display_microscope_view: (ring_radius**2 * refractive_index)
\* / (ring_number * radius_of_curvature/10**7) * 1_000_000, in tenths of a nm
WavelengthFromRadius(ring_number, ring_radius, r) ==
    RoundDiv(SquareOver100000(ring_radius) * AIR_REFRACTIVE_INDEX,
             ring_number * r)

\* display_microscope_measurements: (diameter_squared * refractive_index)
\* / (4 * ring * radius_of_curvature/10**7) * 1_000_000, in tenths of a nm,
\* for the diameter in nm
WavelengthFromDiameter(ring, diameter, r) ==
    RoundDiv(SquareOver100000(diameter) * AIR_REFRACTIVE_INDEX,
             4 * ring * r)

\* ------------------------------------------------- measurement table view
\* the largest and the smallest of a non-empty set of positions
LMax(S) == CHOOSE x \in S : \A y \in S : ~LLess(x, y)
LMin(S) == CHOOSE x \in S : \A y \in S : ~LLess(y, x)

\* ring_measurements[ring]['left'] (left = TRUE) or ['right']: the
\* positions of the stored readings whose closest ring is ring, split by
\* the sign of the position
SideSamples(ms, ring, left) ==
    {ms[k].position :
        k \in {j \in DOMAIN ms :
                  /\ ms[j].closest_ring = ring
                  /\ LLess(ms[j].position, Nm(0)) = left}}

\* the precision of the stored reading taken at position pos
LabelOf(ms, pos) ==
    CHOOSE label \in {ms[k].precision : k \in DOMAIN ms} :
        \E k \in DOMAIN ms :
            ms[k].position = pos /\ ms[k].precision = label

\* left_measurements[label] / right_measurements[label] of the table loop:
\* the samples of one side of a ring that carry the label
Group(ms, samples, label) == {pos \in samples : LabelOf(ms, pos) = label}

\* the label is a key of both local groupings
InBoth(ms, L, R, label) ==
    Group(ms, L, label) # {} /\ Group(ms, R, label) # {}

\* the rings that get a table row: measured on both sides, not the centre
TableRings(ms) ==
    {ring \in {ms[k].closest_ring : k \in DOMAIN ms} :
        /\ SideSamples(ms, ring, TRUE) # {}
        /\ SideSamples(ms, ring, FALSE) # {}
        /\ ring > 0}

\* the view goes past the "no measurements" message and finds keys on both
\* sides of the centre
TableShown(ms) ==
    /\ DOMAIN ms # {}
    /\ \E k \in DOMAIN ms : LLess(k, Nm(0))
    /\ \E k \in DOMAIN ms : LLess(Nm(0), k)

\* the pair of a table row: left_pos, right_pos and precision_type
BestPair(ms, ring) ==
    LET L == SideSamples(ms, ring, TRUE)
        R == SideSamples(ms, ring, FALSE)
        Of(label) ==
            [left_pos |-> LMax(Group(ms, L, label)),
             right_pos |-> LMin(Group(ms, R, label)),
             precision_type |-> label]
    IN  IF InBoth(ms, L, R, "Ultra-High") THEN Of("Ultra-High")
        ELSE IF InBoth(ms, L, R, "Very High") THEN Of("Very High")
        ELSE IF InBoth(ms, L, R, "High") THEN Of("High")
        ELSE [left_pos |-> LMax(L), right_pos |-> LMin(R),
              precision_type |-> "Standard"]

\* the pair the statistics loop uses for a ring: the local groupings are
\* the ones the table loop left behind, those of the last ring of the table
StatPair(ms, ring) ==
    LET last == CHOOSE x \in TableRings(ms) :
                    \A y \in TableRings(ms) : y <= x
        L == SideSamples(ms, last, TRUE)
        R == SideSamples(ms, last, FALSE)
        Of(label, class) ==
            [left_pos |-> LMax(Group(ms, L, label)),
             right_pos |-> LMin(Group(ms, R, label)),
             precision_class |-> class]
    IN  IF InBoth(ms, L, R, "Ultra-High") THEN Of("Ultra-High", 3)
        ELSE IF InBoth(ms, L, R, "Very High") THEN Of("Very High", 2)
        ELSE IF InBoth(ms, L, R, "High") THEN Of("High", 1)
        ELSE [left_pos |-> LMax(SideSamples(ms, ring, TRUE)),
              right_pos |-> LMin(SideSamples(ms, ring, FALSE)),
              precision_class |-> 0]

\* diameter = right_pos - left_pos, in nm
PairDiameter(pair) == LSub(pair.right_pos, pair.left_pos)[1]

\* one row of the table
TableRow(ms, ring, r) ==
    LET pair == BestPair(ms, ring)
    IN  [left_pos |-> pair.left_pos,
         right_pos |-> pair.right_pos,
         precision_type |-> pair.precision_type,
         wavelength_nm |->
             WavelengthFromDiameter(ring, PairDiameter(pair), r)]

\* the entry of one ring in wavelengths and precisions
StatEntry(ms, ring, r) ==
    LET pair == StatPair(ms, ring)
    IN  [left_pos |-> pair.left_pos,
         right_pos |-> pair.right_pos,
         precision_class |-> pair.precision_class,
         wavelength_nm |->
             WavelengthFromDiameter(ring, PairDiameter(pair), r)]

\* what the view prints: the rows of the table and the entries of the
\* statistics, by ring
Shown(ms, r) ==
    LET rings == IF TableShown(ms) THEN TableRings(ms) ELSE {}
    IN  [rows |-> [ring \in rings |-> TableRow(ms, ring, r)],
         stats |-> [ring \in rings |-> StatEntry(ms, ring, r)]]

\* a dict with the value of f put at every key of f
PutAll(d, f) ==
    [x \in (DOMAIN d) \cup (DOMAIN f) |->
        IF x \in DOMAIN f THEN f[x] ELSE d[x]]

\* a view that prints and stores nothing
display_only ==
    /\ Callable
    /\ UNCHANGED <<session, now>>
    /\ microUnchanged
    /\ Observe("display_microscope_measurements",
               Shown(measurements, radius_of_curvature))

\* display_microscope_measurements: the table of the stored readings; each
\* row is also stored in the session's left and right measurements
display_microscope_measurements ==
    /\ Callable
    /\ \E shown \in {Shown(measurements, radius_of_curvature)} :
           /\ left_measurements' =
                  PutAll(left_measurements,
                         [ring \in DOMAIN shown.rows |->
                             shown.rows[ring].left_pos])
           /\ right_measurements' =
                  PutAll(right_measurements,
                         [ring \in DOMAIN shown.rows |->
                             shown.rows[ring].right_pos])
           /\ Observe("display_microscope_measurements", shown)
    /\ UNCHANGED <<wavelength, radius_of_curvature, ring_radii, now>>
    /\ microUnchanged

\* the 'c' key of the microscope control: the stored readings are dropped
clear_measurements ==
    /\ Callable
    /\ measurements' = <<>>
    /\ UNCHANGED <<position, step_size, current_reading, movement_history,
                   precision_mode, sub_pixel_positions, last_update_time,
                   velocity, movement_smoothness, normal_step_size>>
    /\ UNCHANGED <<session, now>>
    /\ Observe("clear_measurements", TRUE)

\* ------------------------------------------------------------------ start
\* TravelingMicroscope.__init__ and NewtonRingsSimulation.__init__, with the
\* microscope at position p, the wavelength w, the radius of curvature r
\* and a budget of b calls
Constructed(p, w, r, b) ==
    /\ position = p
    /\ step_size = NmPerMm \div 10
    /\ current_reading = <<>>
    /\ measurements = <<>>
    /\ movement_history = <<>>
    /\ precision_mode = FALSE
    /\ sub_pixel_positions = <<>>
    /\ last_update_time = 0
    /\ velocity = 0
    /\ movement_smoothness = SmoothnessNormal
    /\ normal_step_size = <<>>
    /\ wavelength = w
    /\ radius_of_curvature = r
    /\ ring_radii = RingTable(w, r)
    /\ left_measurements = <<>>
    /\ right_measurements = <<>>
    /\ now = 0
    /\ ret = [op |-> "__init__", value |-> FALSE, step_before |-> 0,
              position_before |-> p, reading_before |-> <<>>]
    /\ prev = [op |-> "__init__", value |-> FALSE, step_before |-> 0,
               position_before |-> p, reading_before |-> <<>>]
    /\ nops = 0
    /\ budget = b

\* Step-size control alone, from the constructed microscope.
InitStep ==
    Constructed(Nm(0), SODIUM_WAVELENGTH, DEFAULT_RADIUS_OF_CURVATURE,
                MaxStepOps)
NextStep ==
    \/ increase_step_size
    \/ decrease_step_size
    \/ toggle_precision_mode
SpecStep == InitStep /\ [][NextStep]_vars

\* ----------------------------------------------------- step-size claims
\* C2: after any sequence of increase_step_size, decrease_step_size and
\* toggle_precision_mode calls from the initial step size 0.1 mm, step_size
\* is within [0.001, 2.0] mm and is a multiple of 0.001 mm.
StepSizeWithinRange ==
    /\ MinStep <= step_size
    /\ step_size <= MaxStep
    /\ step_size % NmPerMicron = 0

TwoToggles ==
    /\ ret.op = "toggle_precision_mode"
    /\ prev.op = "toggle_precision_mode"

\* C3 as claimed: from any reachable state, in normal mode or in precision
\* mode, two successive toggle_precision_mode calls leave step_size equal
\* to its value before the two calls.
TwoTogglesRestoreStepSize == TwoToggles => step_size = prev.step_before

\* C3 amended: from any reachable state in normal mode, two successive
\* toggle_precision_mode calls leave step_size equal to its value before
\* the two calls.
TwoTogglesRestoreNormalStepSize ==
    (TwoToggles /\ ~precision_mode) => step_size = prev.step_before

TwoTogglesFromNormalDone ==
    /\ TwoToggles
    /\ ~precision_mode
    /\ step_size = prev.step_before
    /\ step_size # NmPerMm \div 10

\* ------------------------------------------------------------ the session
\* inputs of the calls: the factor in tenths, the time since the last call
Factors == {0, 10}
Elapsed == {0, 50000, 250000}
\* the microscope starts at the centre or just inside a travel limit
StartPositions ==
    {Nm(0), Nm(max_position - NmPerMm \div 100),
     Nm(-(max_position - NmPerMm \div 100))}

MoveLeft == \E f \in Factors, el \in Elapsed : move_left(f, el)
MoveRight == \E f \in Factors, el \in Elapsed : move_right(f, el)
NoiseSamples == {-50, 0, 50}
TakeMeasurement == \E u \in NoiseSamples : take_measurement(u)
Confirmations == {"y", "Y", "n"}
ResetAllMeasurements ==
    \E confirm \in Confirmations : reset_all_measurements(confirm)

Init ==
    \E p \in StartPositions :
        Constructed(p, SODIUM_WAVELENGTH, DEFAULT_RADIUS_OF_CURVATURE, MaxOps)
Next ==
    \/ MoveLeft
    \/ MoveRight
    \/ increase_step_size
    \/ decrease_step_size
    \/ toggle_precision_mode
    \/ TakeMeasurement
    \/ ResetAllMeasurements
Spec == Init /\ [][Next]_vars

\* ------------------------------------------------------- motion claims
\* C1: after any sequence of move_left and move_right calls the position
\* is within [-max_position, +max_position].
PositionWithinTravel ==
    /\ ~LLess(position, Nm(-max_position))
    /\ ~LLess(Nm(max_position), position)

MoveCall(r) == r.op \in {"move_left", "move_right"}

\* C8: a move_left at -max_position or a move_right at +max_position
\* returns False, leaves position, last_update_time, movement_history and
\* sub_pixel_positions unchanged, and multiplies the velocity by 0.5.
RefusedMoveOnlyDamps ==
    [][(/\ nops' = nops + 1
        /\ \/ ret'.op = "move_left" /\ position = Nm(-max_position)
           \/ ret'.op = "move_right" /\ position = Nm(max_position))
       => /\ ret'.value = FALSE
          /\ UNCHANGED <<position, last_update_time, movement_history,
                         sub_pixel_positions>>
          /\ Abs(2 * velocity' - velocity) <= 1]_vars

RefusedMoveWhileMoving ==
    /\ ret.op = "move_right"
    /\ ret.value = FALSE
    /\ position = Nm(max_position)
    /\ ret.position_before = Nm(max_position)
    /\ velocity # 0

\* new_position before the limit test, for the move op with the factor f
\* called el microseconds after the last reading of the clock
CandidatePosition(op, f, el) ==
    LET actual_step == ActualStep(step_size, f, precision_mode)
        target_velocity ==
            IF op = "move_left" THEN -(actual_step * 10)
            ELSE actual_step * 10
        v == SmoothedVelocity(velocity, target_velocity, movement_smoothness)
    IN  LAdd(position, Displacement(v, Dt(now + el, last_update_time)))

\* C15: whenever the candidate position of a move, in either direction,
\* lies beyond +max_position or beyond -max_position, the move sets the
\* position to that bound and the velocity to 0.
HardStopAtEitherLimit ==
    [][(nops' = nops + 1 /\ MoveCall(ret') /\ ret'.value = TRUE)
       => \A f \in Factors, el \in Elapsed :
              (move_left(f, el) \/ move_right(f, el))
              => LET c == CandidatePosition(ret'.op, f, el)
                 IN  /\ LLess(Nm(max_position), c)
                            => position' = Nm(max_position)
                                   /\ velocity' = 0
                     /\ LLess(c, Nm(-max_position))
                            => position' = Nm(-max_position)
                                   /\ velocity' = 0]_vars

\* C16: leaving precision mode restores the step size that was in effect
\* just before it was entered, whatever was called in between: the step
\* size is remembered on entry, the remembered value changes at no other
\* call, and it is the step size after leaving.
StepSizeRestoredOnLeaving ==
    [][/\ (~precision_mode /\ precision_mode')
              => normal_step_size' = <<step_size>>
       /\ ~(~precision_mode /\ precision_mode')
              => normal_step_size' = normal_step_size
       /\ (precision_mode /\ ~precision_mode')
              => step_size' = normal_step_size[1]]_vars

LeftPrecisionAfterStepChange ==
    /\ ret.op = "toggle_precision_mode"
    /\ ret.value = FALSE
    /\ prev.op \in {"increase_step_size", "decrease_step_size"}
    /\ prev.step_before # ret.step_before
    /\ step_size # ret.step_before
    /\ step_size = NmPerMm \div 10

\* C17: movement_smoothness is 0.9 exactly when precision_mode is true and
\* 0.8 exactly when it is false; precision_mode changes only in
\* toggle_precision_mode, which flips it and returns the new flag.
SmoothnessFollowsPrecisionMode ==
    /\ [](/\ (movement_smoothness = 9 <=> precision_mode)
          /\ (movement_smoothness = 8 <=> ~precision_mode))
    /\ [][/\ precision_mode' # precision_mode
                 => ret'.op = "toggle_precision_mode"
          /\ (nops' = nops + 1 /\ ret'.op = "toggle_precision_mode")
                 => /\ precision_mode' = ~precision_mode
                    /\ ret'.value = precision_mode']_vars

MovedInPrecisionModeAndLeft ==
    /\ ret.op = "toggle_precision_mode"
    /\ ret.value = FALSE
    /\ ~precision_mode
    /\ movement_smoothness = 8
    /\ MoveCall(prev)
    /\ prev.step_before < NmPerMm \div 10

\* C9: the value a move returns is True exactly when the position changed.
MoveReturnsWhetherPositionChanged ==
    MoveCall(ret) => (ret.value = TRUE <=> position # ret.position_before)

\* C12: a confirmed reset leaves the measurements map empty and
\* current_reading absent, and leaves position, velocity, step_size and
\* precision_mode as they were.
ConfirmedResetClearsReadingsOnly ==
    [][(/\ nops' = nops + 1
        /\ ret'.op = "reset_all_measurements"
        /\ ret'.value \in {"y", "Y"})
       => /\ measurements' = <<>>
          /\ current_reading' = <<>>
          /\ UNCHANGED <<position, velocity, step_size,
                         precision_mode>>]_vars

ResetAfterMovingAndMeasuring ==
    /\ ret.op = "reset_all_measurements"
    /\ ret.value = "y"
    /\ ret.reading_before # <<>>
    /\ current_reading = <<>>
    /\ measurements = <<>>
    /\ velocity # 0
    /\ position # Nm(0)

\* ------------------------------------------------------ the two histories
\* a long run of key presses 50 ms apart with factor 0, in either direction,
\* from the constructed microscope
HeldFactors == {0}
HeldElapsed == {50000}
MoveLeftHeld ==
    \E f \in HeldFactors, el \in HeldElapsed : move_left(f, el)
MoveRightHeld ==
    \E f \in HeldFactors, el \in HeldElapsed : move_right(f, el)

InitHistory ==
    Constructed(Nm(0), SODIUM_WAVELENGTH, DEFAULT_RADIUS_OF_CURVATURE,
                MaxHistoryOps)
NextHistory ==
    \/ MoveLeftHeld
    \/ MoveRightHeld
SpecHistory == InitHistory /\ [][NextHistory]_vars

\* new is old with one entry appended, less the oldest entry if old was full
ShiftedIn(old, new, cap) ==
    LET dropped == IF Len(old) < cap THEN 0 ELSE 1
    IN  /\ Len(new) = Len(old) + 1 - dropped
        /\ \A i \in 1..(Len(new) - 1) : new[i] = old[i + dropped]

\* C13: the movement history never holds more than 15 entries and the
\* sub-position history never more than 20; a successful move appends its
\* entry and, when the history was full, drops the oldest one.
HistoriesAreBounded ==
    /\ [](Len(movement_history) <= 15 /\ Len(sub_pixel_positions) <= 20)
    /\ [][(nops' = nops + 1 /\ MoveCall(ret') /\ ret'.value = TRUE)
          => /\ ShiftedIn(movement_history, movement_history', 15)
             /\ movement_history'[Len(movement_history')][3] = now'
             /\ ShiftedIn(sub_pixel_positions, sub_pixel_positions', 20)
             /\ sub_pixel_positions'[Len(sub_pixel_positions')]
                    = <<position', now'>>]_vars

OldestEntriesDropped ==
    /\ MoveCall(ret)
    /\ ret.value = TRUE
    /\ Len(movement_history) = 15
    /\ Len(sub_pixel_positions) = 20
    /\ sub_pixel_positions[1][2] > 50000
    /\ sub_pixel_positions[20][2] = now
    /\ movement_history[1][3] > sub_pixel_positions[1][2]

\* ------------------------------------------------------------- the scan
\* measurements and moves for a microscope that stands at the centre, on a
\* ring, halfway between two rings or outside the last ring, on either side
Halfway(a, b) == <<(a + b) \div 2, ((a + b) % 2) * (FinePerNm \div 2)>>
ScanPositions(radii) ==
    {Nm(0), Nm(radii[3]), Nm(-radii[3]),
     Halfway(radii[0], radii[1]), Halfway(radii[1], radii[2]),
     LNeg(Halfway(radii[1], radii[2])),
     Halfway(radii[MAX_RINGS - 1], radii[MAX_RINGS]),
     Nm(radii[MAX_RINGS] + NmPerMm)}
ScanWavelengths == {SODIUM_WAVELENGTH, 4000}
ScanRadii == {DEFAULT_RADIUS_OF_CURVATURE, 200}

InitScan ==
    \E w \in ScanWavelengths, r \in ScanRadii :
        \E p \in ScanPositions(RingTable(w, r)) :
            Constructed(p, w, r, MaxScanOps)
NextScan ==
    \/ TakeMeasurement
    \/ MoveLeft
    \/ MoveRight
SpecScan == InitScan /\ [][NextScan]_vars

\* abs(abs(position) - radius of ring m)
RingDistance(m) == LAbs(LSub(LAbs(position), Nm(ring_radii[m])))

\* C18: take_measurement reports as closest_ring the lowest ring order at
\* minimum distance from abs(position), and as second_closest_ring the
\* lowest ring order, other than the closest, at minimum distance among
\* the remaining rings.
ClosestAndSecondClosest ==
    ret.op = "take_measurement"
    => LET c == ret.value.closest_ring
           s == ret.value.second_closest_ring
           rings == DOMAIN ring_radii
       IN  /\ c \in rings
           /\ \A m \in rings : ~LLess(RingDistance(m), RingDistance(c))
           /\ \A m \in rings :
                  m < c => LLess(RingDistance(c), RingDistance(m))
           /\ ret.value.distance_from_ring = RingDistance(c)
           /\ s \in rings \ {c}
           /\ \A m \in rings \ {c} :
                  ~LLess(RingDistance(m), RingDistance(s))
           /\ \A m \in rings \ {c} :
                  m < s => LLess(RingDistance(s), RingDistance(m))

MeasuredHalfwayBetweenRings ==
    /\ ret.op = "take_measurement"
    /\ ret.value.closest_ring = 1
    /\ ret.value.second_closest_ring = 2
    /\ RingDistance(1) = RingDistance(2)
    /\ LLess(position, Nm(0))

\* ---------------------------------------------------- measurement records
\* C19: every record with distance_from_ring >= 0.01 mm has
\* alignment_quality 0, and a record with distance 0 has alignment_quality
\* 100.
AlignmentQualitySaturatesAtZero ==
    \A k \in DOMAIN measurements :
        /\ ~LLess(measurements[k].distance_from_ring, Nm(NmPerMm \div 100))
               => measurements[k].alignment_quality = 0
        /\ measurements[k].distance_from_ring = Nm(0)
               => measurements[k].alignment_quality = 100 * AlignmentScale

\* C20: the velocity in a measurement record is the difference quotient of
\* the last two entries of the sub-position history (to 1 nm/s, and 0 when
\* the two entries carry the same time), and 0 when the history has fewer
\* than two entries.
RecordedVelocityIsDifferenceQuotient ==
    ret.op = "take_measurement"
    => LET h == sub_pixel_positions
           n == Len(h)
           v == ret.value.velocity
       IN  IF n < 2 THEN v = 0
           ELSE LET pos_diff == LSub(h[n][1], h[n - 1][1])
                    time_diff == h[n][2] - h[n - 1][2]
                    size == LAbs(pos_diff)
                IN  /\ time_diff = 0 => v = 0
                    /\ v < 0 => LLess(pos_diff, Nm(0))
                    /\ v > 0 => LLess(Nm(0), pos_diff)
                    /\ time_diff > 0
                           => /\ ~LLess(size, SpeedTimesTime(Abs(v), time_diff))
                              /\ ~LLess(LAdd(SpeedTimesTime(Abs(v) + 1,
                                                            time_diff),
                                             <<0, 1>>),
                                        size)

MeasuredWhileMoving ==
    /\ ret.op = "take_measurement"
    /\ Len(sub_pixel_positions) >= 2
    /\ ret.value.velocity < 0
    /\ sub_pixel_positions[2][2] - sub_pixel_positions[1][2] = 250000

\* --------------------------------------------------------- the ring table
\* the table commands alone, from the constructed session
WavelengthChoices == {"1", "2", "3", "4", "5", "6"}
CustomWavelengths ==
    {Number(3999), Number(4000), Number(7000), Number(7001), Garbage}
RadiusInputs ==
    {Number(49), Number(50), Number(200), Number(201), Garbage}

\* the custom wavelength is asked for after choice 5 only
ChangeWavelength ==
    \E choice \in WavelengthChoices :
        \E custom \in IF choice = "5" THEN CustomWavelengths ELSE {Garbage} :
            change_wavelength(choice, custom)
ChangeRadius == \E new_radius \in RadiusInputs : change_radius(new_radius)

InitRings ==
    Constructed(Nm(0), SODIUM_WAVELENGTH, DEFAULT_RADIUS_OF_CURVATURE,
                MaxRingOps)
NextRings ==
    \/ ChangeWavelength
    \/ ChangeRadius
SpecRings == InitRings /\ [][NextRings]_vars

\* C6: the ring table has MAX_RINGS + 1 entries for m = 0..MAX_RINGS, entry
\* 0 is 0, every entry is non-negative, the entries strictly increase with
\* m, and the square of entry m is m * wavelength * radius_of_curvature / mu
\* (here to the micrometre).
RingTableShape ==
    /\ DOMAIN ring_radii = 0..MAX_RINGS
    /\ Cardinality(DOMAIN ring_radii) = 16
    /\ ring_radii[0] = 0
    /\ \A m \in 0..MAX_RINGS : ring_radii[m] >= 0
    /\ \A m \in 1..MAX_RINGS : ring_radii[m - 1] < ring_radii[m]
    /\ \A m \in 0..MAX_RINGS :
           LET a == ring_radii[m] \div 1000
               square == (m * wavelength * radius_of_curvature)
                             \div AIR_REFRACTIVE_INDEX
           IN  a * a <= square /\ square < (a + 1) * (a + 1)

RingTableRecalculated ==
    /\ ret.op = "change_radius"
    /\ prev.op = "change_wavelength"
    /\ wavelength # SODIUM_WAVELENGTH
    /\ radius_of_curvature # DEFAULT_RADIUS_OF_CURVATURE

\* C11: a custom wavelength outside 400..700 nm or not a number, and a
\* radius of curvature outside 50..200 cm or not a number, are rejected:
\* wavelength, radius_of_curvature and the ring table keep their values.
RejectedEntriesChangeNothing ==
    [][(/\ nops' = nops + 1
        /\ \/ /\ ret'.op = "change_wavelength"
              /\ ret'.value.choice = "5"
              /\ \/ ~ret'.value.custom.numeric
                 \/ ret'.value.custom.value < 4000
                 \/ ret'.value.custom.value > 7000
           \/ /\ ret'.op = "change_radius"
              /\ \/ ~ret'.value.numeric
                 \/ ret'.value.value < 50
                 \/ ret'.value.value > 200)
       => UNCHANGED <<wavelength, radius_of_curvature, ring_radii>>]_vars

OutOfRangeWavelengthRejected ==
    /\ ret.op = "change_wavelength"
    /\ ret.value.choice = "5"
    /\ ret.value.custom.numeric
    /\ ret.value.custom.value > 7000
    /\ prev.op = "change_radius"
    /\ radius_of_curvature = 200
    /\ wavelength = SODIUM_WAVELENGTH
    /\ ring_radii[1] # RingRadius(1, SODIUM_WAVELENGTH,
                                  DEFAULT_RADIUS_OF_CURVATURE)

\* C14: in every state reached through change_wavelength and
\* change_radius the ring table is the table calculated from the current
\* wavelength, radius of curvature and refractive index, and its entry for
\* ring 0 is 0.
RingTableIsCurrent ==
    /\ ring_radii[0] = 0
    /\ \A m \in 1..MAX_RINGS :
           ring_radii[m]
               = SqrtTimes1000((m * wavelength * radius_of_curvature)
                                   \div AIR_REFRACTIVE_INDEX)

BothParametersChanged ==
    /\ ret.op = "change_wavelength"
    /\ ret.value.choice = "2"
    /\ prev.op = "change_radius"
    /\ wavelength = 5461
    /\ radius_of_curvature = 50
    /\ ring_radii[0] = 0

\* C5: for every ring m >= 1 of the ring table, the wavelength the
\* microscope view calculates from the ring's radius, and the one the
\* analysis table calculates from the diameter of a pair at -r_m and +r_m,
\* equal the current wavelength (to 0.1 nm).
WavelengthRoundTrip ==
    \A m \in 1..MAX_RINGS :
        /\ Abs(WavelengthFromRadius(m, ring_radii[m], radius_of_curvature)
                   - wavelength) <= 1
        /\ Abs(WavelengthFromDiameter(m, 2 * ring_radii[m],
                                      radius_of_curvature)
                   - wavelength) <= 1

\* --------------------------------------------------- the menu regression
\* the menu measurements and the calculation, for a session whose
\* wavelength and radius of curvature have been set
StartWavelengths == {SODIUM_WAVELENGTH, 4861}
StartRadii == {DEFAULT_RADIUS_OF_CURVATURE, 50}
RingNumbers == {Number(0), Number(5), Number(10), Number(15), Garbage}
MeasureNoise == {0, 9000}

MeasureLeftSide ==
    \E ring_number \in RingNumbers, noise \in MeasureNoise :
        measure_left_side(ring_number, noise)
MeasureRightSide ==
    \E ring_number \in RingNumbers, noise \in MeasureNoise :
        measure_right_side(ring_number, noise)

InitRegress ==
    \E w \in StartWavelengths, r \in StartRadii :
        Constructed(Nm(0), w, r, MaxRegressOps)
NextRegress ==
    \/ MeasureLeftSide
    \/ MeasureRightSide
    \/ calculate_radius_from_measurements
SpecRegress == InitRegress /\ [][NextRegress]_vars

CalculateCall(r) == r.op = "calculate_radius_from_measurements"

NoiseFree ==
    \A ring \in ValidRings(left_measurements, right_measurements) :
        /\ left_measurements[ring] = Nm(-ring_radii[ring])
        /\ right_measurements[ring] = Nm(ring_radii[ring])

\* C4: with noise-free measurements -r_m and +r_m for two or more rings,
\* calculate_radius_from_measurements reports a calculated radius equal to
\* the actual radius of curvature to within 0.1 percent.
RegressionRecoversRadius ==
    (/\ CalculateCall(ret)
     /\ ret.value.status = "ok"
     /\ NoiseFree)
    => Abs(ret.value.calculated_radius - radius_of_curvature) * 1000
           <= radius_of_curvature

\* C10: calculate_radius_from_measurements never fails: with fewer than
\* two rings measured on both sides it reports that and returns without
\* changing any state, and with two or more the regression denominator
\* n * sum(x^2) - (sum x)^2 is not zero.
CalculateNeverFails ==
    [][(nops' = nops + 1 /\ ret'.op = "calculate_radius_from_measurements")
       => LET valid == DOMAIN left_measurements
                           \cap DOMAIN right_measurements
              n == Cardinality(valid)
              sum_x == SumOver([x \in valid |-> x], valid)
              sum_xx == SumOver([x \in valid |-> x * x], valid)
          IN  /\ ret'.value.status # "ZeroDivisionError"
              /\ n < 2 => /\ ret'.value.status = "need_two_rings"
                          /\ UNCHANGED <<micro, session>>
              /\ n >= 2 => /\ ret'.value.status = "ok"
                           /\ n * sum_xx - sum_x * sum_x # 0
                           /\ ret'.value.denominator
                                  = n * sum_xx - sum_x * sum_x]_vars

CalculatedFromTwoRings ==
    /\ CalculateCall(ret)
    /\ ret.value.n = 2
    /\ ret.value.status = "ok"

\* ------------------------------------------------------ measurement keys
\* moves of 1e-10 mm and measurements, for a microscope in precision mode
\* at its smallest step, a few 1e-11 mm from the centre
FineOffsets == {0, 45}
FineFactors == {10}
FineElapsed == {1}
FineNoise == {0}

MoveLeftFine ==
    \E f \in FineFactors, el \in FineElapsed : move_left(f, el)
MoveRightFine ==
    \E f \in FineFactors, el \in FineElapsed : move_right(f, el)
TakeMeasurementFine == \E u \in FineNoise : take_measurement(u)

InitKey ==
    \E f \in FineOffsets :
        /\ position = <<0, f>>
        /\ step_size = MinStep
        /\ current_reading = <<>>
        /\ measurements = <<>>
        /\ movement_history = <<>>
        /\ precision_mode = TRUE
        /\ sub_pixel_positions = <<>>
        /\ last_update_time = 0
        /\ velocity = 0
        /\ movement_smoothness = SmoothnessPrecision
        /\ normal_step_size = <<14 * MinStep>>
        /\ wavelength = SODIUM_WAVELENGTH
        /\ radius_of_curvature = DEFAULT_RADIUS_OF_CURVATURE
        /\ ring_radii = RingTable(SODIUM_WAVELENGTH,
                                  DEFAULT_RADIUS_OF_CURVATURE)
        /\ left_measurements = <<>>
        /\ right_measurements = <<>>
        /\ now = 0
        /\ ret = [op |-> "__init__", value |-> FALSE, step_before |-> 0,
                  position_before |-> <<0, f>>, reading_before |-> <<>>]
        /\ prev = [op |-> "__init__", value |-> FALSE, step_before |-> 0,
                   position_before |-> <<0, f>>, reading_before |-> <<>>]
        /\ nops = 0
        /\ budget = MaxKeyOps
NextKey ==
    \/ MoveLeftFine
    \/ MoveRightFine
    \/ TakeMeasurementFine
    \/ toggle_precision_mode
SpecKey == InitKey /\ [][NextKey]_vars

\* two positions 1e-10 mm apart
Differ1e10(p, q) == LAbs(LSub(p, q)) = <<0, 10>>

\* two positions strictly inside the same half-open interval around one
\* multiple of 1e-9 mm: no rounding boundary x.5e-9 between or on them
NoBoundaryBetween(p, q) ==
    /\ p[1] = q[1]
    /\ p[2] \div 100 = q[2] \div 100
    /\ \/ p[2] % 100 < 50 /\ q[2] % 100 < 50
       \/ p[2] % 100 > 50 /\ q[2] % 100 > 50

SweptRings == {1, 2}
StopOffsets == {-30000, 70000, -120000}

\* the positions of the stops, in nm
Stops(radii) ==
    {side * (radii[ring] + offset) :
        side \in {-1, 1}, ring \in SweptRings, offset \in StopOffsets}

\* the record take_measurement stores for a reading at position p (nm)
\* with the microscope held still, in normal mode, without noise
HeldReading(p, radii) ==
    LET scan == ClosestRings(Nm(p), radii)
    IN  [position |-> Nm(p),
         closest_ring |-> scan.closest_ring,
         second_closest_ring |-> scan.second_closest,
         distance_from_ring |-> scan.min_distance,
         reading |-> Nm(p),
         precision |-> Quality(scan.min_distance, 0),
         velocity |-> 0,
         noise_estimate |-> NoiseEstimate(FALSE, scan.min_distance),
         timestamp |-> 0,
         alignment_quality |->
             100 * AlignmentScale - AlignmentLoss(scan.min_distance)]

\* the session's map of one side after the sweep: the last reading of each
\* ring on that side
SweptSide(readings, stops, left) ==
    LET rings == {readings[p].closest_ring :
                     p \in {q \in stops : (q < 0) = left}}
    IN  [ring \in {x \in rings : x > 0} |->
            LMax({Nm(p) : p \in {q \in stops :
                                    /\ (q < 0) = left
                                    /\ readings[q].closest_ring = ring}})]

ViewRingNumbers == {Number(0), Number(1), Garbage}
ViewNoise == {-9000}
MeasureLeftSideView ==
    \E n \in ViewRingNumbers, u \in ViewNoise : measure_left_side(n, u)
MeasureRightSideView ==
    \E n \in ViewRingNumbers, u \in ViewNoise : measure_right_side(n, u)
TakeMeasurementView == \E u \in {0} : take_measurement(u)

InitView ==
    \E radii \in {RingTable(SODIUM_WAVELENGTH, DEFAULT_RADIUS_OF_CURVATURE)} :
    \E readings \in {[p \in Stops(radii) |-> HeldReading(p, radii)]} :
    \E stops \in {S \in SUBSET Stops(radii) :
                     S # {} /\ Cardinality(S) <= MaxSamples} :
    \E last \in {CHOOSE p \in stops : \A q \in stops : q <= p} :
        /\ position = Nm(last)
        /\ step_size = NmPerMm \div 10
        /\ current_reading = <<readings[last]>>
        /\ measurements =
               [k \in {position_key(Nm(p)) : p \in stops} |->
                   readings[k[1]]]
        /\ movement_history =
               <<<<"right", Nm(0), 0>>, <<"right", Nm(0), 0>>>>
        /\ precision_mode = FALSE
        /\ sub_pixel_positions = <<<<Nm(last), 0>>, <<Nm(last), 0>>>>
        /\ last_update_time = 0
        /\ velocity = 0
        /\ movement_smoothness = SmoothnessNormal
        /\ normal_step_size = <<>>
        /\ wavelength = SODIUM_WAVELENGTH
        /\ radius_of_curvature = DEFAULT_RADIUS_OF_CURVATURE
        /\ ring_radii = radii
        /\ left_measurements = SweptSide(readings, stops, TRUE)
        /\ right_measurements = SweptSide(readings, stops, FALSE)
        /\ now = 0
        /\ ret = [op |-> "__init__", value |-> FALSE, step_before |-> 0,
                  position_before |-> Nm(last), reading_before |-> <<>>]
        /\ prev = [op |-> "__init__", value |-> FALSE, step_before |-> 0,
                   position_before |-> Nm(last), reading_before |-> <<>>]
        /\ nops = 0
        /\ budget = MaxViewOps
NextView ==
    \/ display_microscope_measurements
    \/ TakeMeasurementView
    \/ clear_measurements
    \/ MeasureLeftSideView
    \/ MeasureRightSideView
SpecView == InitView /\ [][NextView]_vars

\* ---------------------------------------------------------------------
\* Travel to a limit: a direction key is held down, so the same move is
\* called again and again, 100 ms apart, with the default factor and the
\* largest step size. The first call may be a move in the other direction,
\* which leaves its momentum; from the second call on the direction does
\* not change.
TravelFactors == {10}
TravelElapsed == {100000}
MoveLeftAgain ==
    /\ nops < 2 \/ ret.op = "move_left"
    /\ \E f \in TravelFactors, el \in TravelElapsed : move_left(f, el)
MoveRightAgain ==
    /\ nops < 2 \/ ret.op = "move_right"
    /\ \E f \in TravelFactors, el \in TravelElapsed : move_right(f, el)

\* the step size after 19 calls of increase_step_size from 0.1: 2.096 mm
TravelStep == 2096 * NmPerMicron
InitTravel ==
    \E p \in StartPositions :
        /\ position = p
        /\ step_size = TravelStep
        /\ current_reading = <<>>
        /\ measurements = <<>>
        /\ movement_history = <<>>
        /\ precision_mode = FALSE
        /\ sub_pixel_positions = <<>>
        /\ last_update_time = 0
        /\ velocity = 0
        /\ movement_smoothness = SmoothnessNormal
        /\ normal_step_size = <<>>
        /\ wavelength = SODIUM_WAVELENGTH
        /\ radius_of_curvature = DEFAULT_RADIUS_OF_CURVATURE
        /\ ring_radii = RingTable(SODIUM_WAVELENGTH,
                                  DEFAULT_RADIUS_OF_CURVATURE)
        /\ left_measurements = <<>>
        /\ right_measurements = <<>>
        /\ now = 0
        /\ ret = [op |-> "__init__", value |-> FALSE, step_before |-> 0,
                  position_before |-> p, reading_before |-> <<>>]
        /\ prev = [op |-> "__init__", value |-> FALSE, step_before |-> 0,
                   position_before |-> p, reading_before |-> <<>>]
        /\ nops = 0
        /\ budget = MaxTravelOps
NextTravel ==
    \/ MoveLeftAgain
    \/ MoveRightAgain
\* the control loop calls the move of the held key as long as it is held
SpecTravel ==
    /\ InitTravel
    /\ [][NextTravel]_vars
    /\ WF_vars(MoveLeftAgain)
    /\ WF_vars(MoveRightAgain)

\* the direction of the run is settled
RunningRight == nops >= 2 /\ ret.op = "move_right"
RunningLeft == nops >= 2 /\ ret.op = "move_left"

JointlyBelow(d, v, t) ==
    LLess(d, Nm(t * NmPerMicron)) /\ Abs(v) < t * NmPerMicron

\* C21: the label of a measurement is the first tier, in the order 0.001,
\* 0.01, 0.05, 0.1, whose threshold bounds both the distance from the
\* closest ring and the measured speed, and Standard when none does; a
\* measurement at position 0 with velocity 0 is labelled Ultra-High
QualityIsFirstMatchingTier ==
    ret.op = "take_measurement" =>
        LET d == ret.value.distance_from_ring
            v == ret.value.velocity
            label == ret.value.precision
        IN  /\ JointlyBelow(d, v, 1) => label = "Ultra-High"
            /\ ~JointlyBelow(d, v, 1) /\ JointlyBelow(d, v, 10)
                   => label = "Very High"
            /\ ~JointlyBelow(d, v, 10) /\ JointlyBelow(d, v, 50)
                   => label = "High"
            /\ ~JointlyBelow(d, v, 50) /\ JointlyBelow(d, v, 100)
                   => label = "Good"
            /\ ~JointlyBelow(d, v, 100) => label = "Standard"
            /\ ret.value.position = Nm(0) /\ v = 0 => label = "Ultra-High"

\* a measurement close to a ring taken while the carriage was moving
\* faster than the tier of its distance allows
MeasuredNearRingWhileMoving ==
    /\ ret.op = "take_measurement"
    /\ LLess(ret.value.distance_from_ring, Nm(50 * NmPerMicron))
    /\ Abs(ret.value.velocity) >= 100 * NmPerMicron
    /\ ret.value.precision = "Standard"

\* ---------------------------------------------------------------------
\* Synchronisation of the session maps by take_measurement

\* after is before with key k set to v and every other entry kept
Overwritten(before, after, k, v) ==
    /\ DOMAIN after = (DOMAIN before) \cup {k}
    /\ after[k] = v
    /\ \A j \in (DOMAIN before) \ {k} : after[j] = before[j]

\* C22: take_measurement at position p with closest ring k # 0 stores p
\* at key k of left_measurements when p < 0 and of right_measurements
\* otherwise, replacing an earlier entry for k, and leaves the other map
\* unchanged; with closest ring 0 neither map changes
MeasurementSyncsSessionMaps ==
    [][nops' = nops + 1 /\ ret'.op = "take_measurement" =>
          LET k == ret'.value.closest_ring
              p == position
          IN  IF k = 0
              THEN UNCHANGED <<left_measurements, right_measurements>>
              ELSE IF LLess(p, Nm(0))
              THEN /\ Overwritten(left_measurements, left_measurements',
                                  k, p)
                   /\ UNCHANGED right_measurements
              ELSE /\ Overwritten(right_measurements, right_measurements',
                                  k, p)
                   /\ UNCHANGED left_measurements]_vars

\* a ring measured, the carriage moved, and the same ring measured again
\* on the same side at the new position
SameRingMeasuredAgain ==
    /\ nops = 3
    /\ ret.op = "take_measurement"
    /\ MoveCall(prev)
    /\ prev.position_before # position
    /\ prev.reading_before # <<>>
    /\ ret.value.closest_ring > 0
    /\ prev.reading_before[1].closest_ring = ret.value.closest_ring
    /\ LLess(prev.position_before, Nm(0)) = LLess(position, Nm(0))
    /\ IF LLess(position, Nm(0))
       THEN left_measurements[ret.value.closest_ring] = position
       ELSE right_measurements[ret.value.closest_ring] = position

\* ---------------------------------------------------------------------
\* Aggregation of the stored readings

ViewCall(r) == r.op = "display_microscope_measurements"

\* the quality labels, best first
Tiers == <<"Ultra-High", "Very High", "High", "Good", "Standard">>

\* the labels ring has on both sides, as indices of Tiers
CommonTiers(ms, ring) ==
    {i \in DOMAIN Tiers :
        InBoth(ms, SideSamples(ms, ring, TRUE),
               SideSamples(ms, ring, FALSE), Tiers[i])}

\* C23: for every ring with a left and a right sample the pair of the
\* table row carries the highest label present on both sides, in the order
\* Ultra-High > Very High > High > Good > Standard, and is made of the
\* rightmost left sample and the leftmost right sample of that label only
BestPairFromBestCommonLabel ==
    ViewCall(ret) =>
        \A ring \in DOMAIN ret.value.rows :
            CommonTiers(measurements, ring) # {} =>
                LET best == Tiers[CHOOSE i \in CommonTiers(measurements, ring) :
                                \A j \in CommonTiers(measurements, ring) :
                                    i <= j]
                    row == ret.value.rows[ring]
                IN  /\ row.precision_type = best
                    /\ row.left_pos =
                           LMax(Group(measurements,
                                      SideSamples(measurements, ring, TRUE),
                                      best))
                    /\ row.right_pos =
                           LMin(Group(measurements,
                                      SideSamples(measurements, ring, FALSE),
                                      best))

\* the tier index of the statistics: 3, 2, 1 for the three best labels and
\* 0 for the others
TierIndex(label) ==
    IF label = "Ultra-High" THEN 3
    ELSE IF label = "Very High" THEN 2
    ELSE IF label = "High" THEN 1
    ELSE 0

\* C24: in the statistics every ring with both sides measured enters with
\* the wavelength and the tier weight of its own best pair, the pair of
\* its table row
StatisticsUseOwnBestPair ==
    ViewCall(ret) =>
        \A ring \in DOMAIN ret.value.rows :
            LET row == ret.value.rows[ring]
                entry == ret.value.stats[ring]
            IN  /\ entry.left_pos = row.left_pos
                /\ entry.right_pos = row.right_pos
                /\ entry.wavelength_nm = row.wavelength_nm
                /\ entry.precision_class = TierIndex(row.precision_type)

\* C25 as stated: the view leaves the stored readings, the current reading
\* and the session's left and right measurements unchanged
ViewIsReadOnly ==
    [][nops' = nops + 1 /\ ViewCall(ret') =>
          UNCHANGED <<measurements, current_reading, left_measurements,
                      right_measurements>>]_vars

\* d is e except at the keys of rows, where it holds the field of the row
StoredFromRows(d, e, rows, Field(_)) ==
    /\ DOMAIN d = (DOMAIN e) \cup (DOMAIN rows)
    /\ \A ring \in DOMAIN rows : d[ring] = Field(rows[ring])
    /\ \A ring \in (DOMAIN e) \ (DOMAIN rows) : d[ring] = e[ring]

LeftPos(row) == row.left_pos
RightPos(row) == row.right_pos

\* C25: the view leaves the microscope (its stored readings and its
\* current reading among the rest) unchanged, and changes the session's
\* left and right measurements at the rings of the table rows only, where
\* it stores the pair of the row
ViewStoresOnlyTableRows ==
    [][nops' = nops + 1 /\ ViewCall(ret') =>
          /\ UNCHANGED micro
          /\ StoredFromRows(left_measurements', left_measurements,
                            ret'.value.rows, LeftPos)
          /\ StoredFromRows(right_measurements', right_measurements,
                            ret'.value.rows, RightPos)]_vars

\* a view after the sweep that replaced the left entry of a ring, the
\* rightmost left reading, by another reading
ViewReplacedSweptEntry ==
    /\ nops = 1
    /\ ViewCall(ret)
    /\ \E ring \in DOMAIN ret.value.rows :
           left_measurements[ring] #
               LMax(SideSamples(measurements, ring, TRUE))

\* ---------------------------------------------------------------------
\* Direction of travel

\* C26 as stated: a move_left call never increases the position and a
\* move_right call never decreases it, whatever velocity the earlier moves
\* left
MovesKeepTheirDirection ==
    [][nops' = nops + 1 =>
          /\ ret'.op = "move_left" => ~LLess(position, position')
          /\ ret'.op = "move_right" => ~LLess(position', position)]_vars

\* C26: a move_left call made while the velocity is not positive never
\* increases the position, and a move_right call made while the velocity
\* is not negative never decreases it
MovesKeepTheirDirectionWithoutMomentum ==
    [][nops' = nops + 1 =>
          /\ ret'.op = "move_left" /\ velocity <= 0
                 => ~LLess(position, position')
          /\ ret'.op = "move_right" /\ velocity >= 0
                 => ~LLess(position', position)]_vars

\* two moves to the left in a row, the second one made with the velocity
\* of the first, have both taken the carriage to the left
MovedLeftTwice ==
    /\ nops = 2
    /\ prev.op = "move_left"
    /\ ret.op = "move_left"
    /\ LLess(ret.position_before, prev.position_before)
    /\ LLess(position, ret.position_before)
    /\ velocity < 0

\* ---------------------------------------------------------------------
\* Progress of the step size

\* C27: increase_step_size returns a strictly larger step size whenever
\* the step size is below 2.0 and decrease_step_size a strictly smaller
\* one whenever it is above 0.001
StepSizeProgress ==
    [][nops' = nops + 1 =>
          /\ ret'.op = "increase_step_size" /\ step_size < MaxStep
                 => ret'.value > step_size
          /\ ret'.op = "decrease_step_size" /\ step_size > MinStep
                 => ret'.value < step_size]_vars

\* ---------------------------------------------------------------------
\* The current reading and the stored readings

\* C28: a current reading is stored in the measurements map under the key
\* round(position, 9) of its position; so the current reading is absent
\* whenever the map is empty
CurrentReadingIsStored ==
    current_reading # <<>> =>
        LET key == position_key(current_reading[1].position)
        IN  /\ key \in DOMAIN measurements
            /\ measurements[key] = current_reading[1]

\* ---------------------------------------------------------------------
\* The session's left and right measurements

\* C30: every key of left_measurements and right_measurements is a ring
\* order in 1..MAX_RINGS, every left value is negative and every right
\* value is not negative, whether written by a manual side measurement, by
\* take_measurement or by the measurement table
SessionMapsWellFormed ==
    /\ \A k \in DOMAIN left_measurements :
           k \in 1..MAX_RINGS /\ LLess(left_measurements[k], Nm(0))
    /\ \A k \in DOMAIN right_measurements :
           k \in 1..MAX_RINGS /\ ~LLess(right_measurements[k], Nm(0))

\* after the sweep the table was shown with at least one row and then a
\* side of a ring was measured by hand
AllThreeWritersWrote ==
    /\ nops = 2
    /\ ViewCall(prev)
    /\ DOMAIN prev.value.rows # {}
    /\ ret.op \in {"measure_left_side", "measure_right_side"}
    /\ ret.value = TRUE
    /\ DOMAIN left_measurements # {}
    /\ DOMAIN right_measurements # {}

====
